---- MODULE Spec2Model ----
(***************************************************************************)
(* The persistence service of fd_viewer: FDDataBase (core/database/db.py)  *)
(* over the FixedDeposit table (core/database/models.py), an SQLite file   *)
(* reached through SQLModel / SQLAlchemy.                                  *)
(*                                                                         *)
(* The table is the set of its rows.  A row carries the primary key `id`,  *)
(* a text column (bank_name, standing for the text and date columns, which *)
(* SQLite hands back as written) and a Decimal column (interest_rate,      *)
(* standing for the three Decimal columns, which the SQLite dialect binds  *)
(* as a float and reads back through "%.10f").                             *)
(*                                                                         *)
(* Python's Optional[T] is a set with at most one element: None is {} and  *)
(* the value v is {v}.  The same encoding says whether a key is present in *)
(* a dict: the dict holds one entry per known key, Absent or {value}.      *)
(***************************************************************************)
EXTENDS Integers, Sequences, FiniteSets, TLC

VARIABLES
    dirExists,    \* the parent directory of db_path exists
    fileExists,   \* the file db_path exists
    tableExists,  \* the table fixeddeposit exists in the file
    store,        \* the rows of the table fixeddeposit
    last,         \* the call whose outcome the caller holds: name, arguments, outcome
    lastCreated,  \* Optional: the id of the last record add_new_fd handed to the caller
    sessions,     \* the number of sessions of the session maker that are open
    calls         \* per concurrent caller: where its update_fd or delete_fd stands

vars == <<dirExists, fileExists, tableExists, store, last, lastCreated,
          sessions, calls>>

----------------------------------------------------------------------------
\* Bounds of the model.

\* Primary keys range over 1..MaxId, so the table holds at most MaxId rows.
MaxId == 2

----------------------------------------------------------------------------
\* Optional values and dict entries.

None == {}
Absent == {}
Some(x) == {x}
Val(o) == CHOOSE x \in o : TRUE
Opt(S) == {None} \cup {Some(x) : x \in S}

----------------------------------------------------------------------------
\* Values of the columns.

\* Decimal(c * 10^e), normalised: c carries no trailing zero and zero is 0 * 10^0,
\* so that equal records are numerically equal Decimals.
Dec(c, e) == [c |-> c, e |-> e]

Ids == 1..MaxId
Banks == {"X", "Y"}
\* 12345.67 and 0.00000000012
Decimals == {Dec(1234567, -2), Dec(12, -11)}

\* Every column of the table, and a name that is no attribute of FixedDeposit.
Fields == {"id", "bank_name", "interest_rate"}
UnknownField == "nickname"

----------------------------------------------------------------------------
\* Decimal columns on SQLite.  SQLModel maps a Decimal field to a Numeric
\* column; SQLite has no native decimal, so the value is bound as a Python
\* float and a result is turned back into a Decimal by formatting the float
\* with "%.<scale>f", the scale being 10 when the field declares none.

RECURSIVE Pow10(_)
Pow10(n) == IF n = 0 THEN 1 ELSE 10 * Pow10(n - 1)

\* The Decimal c * 10^e in normal form.
RECURSIVE Normal(_, _)
Normal(c, e) ==
    IF c = 0 THEN Dec(0, 0)
    ELSE IF c % 10 = 0 THEN Normal(c \div 10, e + 1)
    ELSE Dec(c, e)

\* The scale of "%.10f": no decimal_places is declared on the Decimal fields.
ReturnScale == 10

\* The float a Decimal is bound as, named by its shortest decimal form
\* (repr).  Decimals of up to 15 significant digits, which are all the
\* Decimals of this model, have a float of their own: the float of d is d.
ToFloat(d) == Normal(d.c, d.e)

\* "%.10f" % f as a Decimal: f rounded to ReturnScale decimal places.  (A tie
\* is decided by the binary expansion of f; no value of Decimals is a tie.)
ToDecimal(f) ==
    IF f.e >= -ReturnScale THEN Normal(f.c, f.e)
    ELSE LET p == Pow10((-ReturnScale) - f.e)
         IN  Normal((2 * f.c + p) \div (2 * p), -ReturnScale)

----------------------------------------------------------------------------
\* Records and rows.

\* A FixedDeposit object as the caller holds it: id is Optional[int].
FixedDeposits == [id : Opt(Ids), bank_name : Banks, interest_rate : Decimals]

\* The row an INSERT writes for the object fd under the primary key id.
RowOf(fd, id) ==
    [id |-> id, bank_name |-> fd.bank_name, interest_rate |-> ToFloat(fd.interest_rate)]

\* The FixedDeposit object a SELECT builds from a row.
Load(row) ==
    [id |-> Some(row.id), bank_name |-> row.bank_name,
     interest_rate |-> ToDecimal(row.interest_rate)]

\* A table whose id column is no key: nothing is refused.
NoPrimaryKey(tbl, id) == FALSE

\* id is the primary key: an INSERT or UPDATE that would give a second row
\* the key id raises IntegrityError.
PrimaryKeyViolation(tbl, id) == \E r \in tbl : r.id = id

\* id is an INTEGER PRIMARY KEY without AUTOINCREMENT: a row inserted with a
\* NULL id gets one more than the largest id in the table, 1 in an empty table.
NextRowId(tbl) ==
    IF tbl = {} THEN 1
    ELSE (CHOOSE i \in {r.id : r \in tbl} : \A r \in tbl : r.id <= i) + 1

\* The rows of a result in the order SQLite scans the table: by rowid.
RECURSIVE ByRowId(_)
ByRowId(rows) ==
    IF rows = {} THEN <<>>
    ELSE LET r == CHOOSE x \in rows : \A y \in rows : x.id <= y.id
         IN  <<r>> \o ByRowId(rows \ {r})

\* seq[1..n], all of seq when it is shorter: Result.fetchmany(n).
FetchMany(seq, n) == [i \in 1..(IF n < Len(seq) THEN n ELSE Len(seq)) |-> seq[i]]

\* [f(x) : x in seq]
MapLoad(seq) == [i \in 1..Len(seq) |-> Load(seq[i])]

----------------------------------------------------------------------------
\* Arguments.

\* A dict over field names, as select_fd and update_fd take it: one entry per
\* name, Absent or {value}.
Dicts ==
    [id : Opt(Ids), bank_name : Opt(Banks), interest_rate : Opt(Decimals),
     nickname : Opt({"Z"})]

Keys(d) == {k \in Fields \cup {UnknownField} : d[k] # Absent}

\* The limits select_fd is called with.
Counts == 0..MaxId

\* bool(x) of an Optional[dict] and of an Optional[int].
TruthyDict(o) == o # None /\ Keys(Val(o)) # {}
TruthyInt(o) == o # None /\ Val(o) # 0

\* Where the store fails during a call, if it does.
AddFaults == {"none", "commit", "refresh"}
Faults == {"none", "io"}

----------------------------------------------------------------------------
\* The session of one call.

\* The first statement of a session opens the file, which SQLite creates when
\* the directory is there, and then needs the table.
CanOpen == fileExists \/ dirExists
CanExecute == CanOpen /\ tableExists

----------------------------------------------------------------------------
\* add_new_fd: session.add(fd); session.commit(); session.refresh(fd); return fd,
\* and on any exception session.rollback(); return None.

\* session.merge(fd) in place of session.add(fd): a draft that carries the id
\* of a row overwrites that row.
MergeFd(tbl, fd, fault) ==
    LET id == IF fd.id = None THEN NextRowId(tbl) ELSE Val(fd.id)
        row == RowOf(fd, id)
    IN  IF fault = "commit"
        THEN [store |-> tbl, ret |-> None]
        ELSE [store |-> {r \in tbl : r.id # id} \cup {row},
              ret |-> IF fault = "refresh" THEN None ELSE Some(Load(row))]

AddNewFd(tbl, fd, fault) ==
    LET id == IF fd.id = None THEN NextRowId(tbl) ELSE Val(fd.id)
        row == RowOf(fd, id)
    IN  IF fault = "commit" \/ PrimaryKeyViolation(tbl, id)
        THEN [store |-> tbl, ret |-> None]
        ELSE [store |-> tbl \cup {row},
              ret |-> IF fault = "refresh" THEN None ELSE Some(Load(row))]

----------------------------------------------------------------------------
\* select_fd.

\* WHERE col(key) == value for every key of the dict.
Matches(row, d) ==
    /\ d.id # Absent => row.id = Val(d.id)
    /\ d.bank_name # Absent => row.bank_name = Val(d.bank_name)
    /\ d.interest_rate # Absent => row.interest_rate = ToFloat(Val(d.interest_rate))

\* if condition and count: raise ValueError
Rejects(condition, count) == TruthyDict(condition) /\ TruthyInt(count)

\* select_fd with the except clause of get_all_fds: a failure gives [].
SelectFdEmptyOnFailure(tbl, condition, count, fault) ==
    IF fault # "none" \/ (TruthyDict(condition) /\ UnknownField \in Keys(Val(condition)))
    THEN Some(<<>>)
    ELSE Some(MapLoad(ByRowId(IF TruthyDict(condition)
                              THEN {r \in tbl : Matches(r, Val(condition))}
                              ELSE tbl)))

\* The body of the try block: None when the statement cannot be built
\* (getattr of an unknown name) or the store fails, the loaded rows otherwise.
SelectFd(tbl, condition, count, fault) ==
    IF fault # "none" \/ (TruthyDict(condition) /\ UnknownField \in Keys(Val(condition)))
    THEN None
    ELSE LET rows == IF TruthyDict(condition)
                     THEN {r \in tbl : Matches(r, Val(condition))}
                     ELSE tbl
             result == ByRowId(rows)
         IN  Some(MapLoad(IF TruthyInt(count) THEN FetchMany(result, Val(count))
                          ELSE result))

----------------------------------------------------------------------------
\* update_fd.

\* setattr(fd, key, value) for every entry, then the UPDATE the flush emits: it
\* names the attributes whose value differs from the loaded one.
Updated(row, d) ==
    [id |-> IF d.id # Absent THEN Val(d.id) ELSE row.id,
     bank_name |-> IF d.bank_name # Absent THEN Val(d.bank_name) ELSE row.bank_name,
     interest_rate |->
        IF d.interest_rate # Absent /\ Val(d.interest_rate) # ToDecimal(row.interest_rate)
        THEN ToFloat(Val(d.interest_rate))
        ELSE row.interest_rate]

\* update_fd without the `if not fd` test: an UPDATE that matches no row is
\* reported as done.
UpdateFdUnchecked(tbl, fd_id, updates, fault) ==
    IF fault # "none" \/ UnknownField \in Keys(updates)
    THEN [store |-> tbl, ret |-> FALSE]
    ELSE [store |-> {IF r.id = fd_id THEN Updated(r, updates) ELSE r : r \in tbl},
          ret |-> TRUE]

\* update_fd on a session that writes every setattr through at once: the
\* assignments made before the failure stay in the table.
UpdateFdAutocommit(tbl, fd_id, updates, fault) ==
    IF ~ \E r \in tbl : r.id = fd_id THEN [store |-> tbl, ret |-> FALSE]
    ELSE LET fd == CHOOSE r \in tbl : r.id = fd_id
             new == [Updated(fd, updates) EXCEPT !.id = fd.id]
         IN  [store |-> (tbl \ {fd}) \cup {new},
              ret |-> fault = "none" /\ UnknownField \notin Keys(updates)
                      /\ updates.id \in {Absent, Some(fd.id)}]

UpdateFd(tbl, fd_id, updates, fault) ==
    IF fault # "none" THEN [store |-> tbl, ret |-> FALSE]
    ELSE IF ~ \E r \in tbl : r.id = fd_id THEN [store |-> tbl, ret |-> FALSE]
    ELSE LET fd == CHOOSE r \in tbl : r.id = fd_id
             new == Updated(fd, updates)
         IN  IF UnknownField \in Keys(updates) THEN [store |-> tbl, ret |-> FALSE]
             ELSE IF new.id # fd.id /\ PrimaryKeyViolation(tbl \ {fd}, new.id)
             THEN [store |-> tbl, ret |-> FALSE]
             ELSE [store |-> (tbl \ {fd}) \cup {new}, ret |-> TRUE]

----------------------------------------------------------------------------
\* delete_fd.

\* delete_fd without session.commit(): the DELETE is dropped when the session
\* closes, and True is returned all the same.
DeleteFdUncommitted(tbl, fd_id, fault) ==
    IF fault # "none" \/ ~ \E r \in tbl : r.id = fd_id
    THEN [store |-> tbl, ret |-> FALSE]
    ELSE [store |-> tbl, ret |-> TRUE]

DeleteFd(tbl, fd_id, fault) ==
    IF fault # "none" THEN [store |-> tbl, ret |-> FALSE]
    ELSE IF ~ \E r \in tbl : r.id = fd_id THEN [store |-> tbl, ret |-> FALSE]
    ELSE [store |-> tbl \ {CHOOSE r \in tbl : r.id = fd_id}, ret |-> TRUE]

----------------------------------------------------------------------------
\* get_all_fds.

GetAllFds(tbl, fault) == IF fault # "none" THEN <<>> ELSE MapLoad(ByRowId(tbl))

----------------------------------------------------------------------------
\* The calls.

\* `with self.session as session:`: the session property makes a new session
\* and the with statement enters it.
SessionEnter(n) == n + 1

\* A session that is closed by a session.close() after the try statement: the
\* `return False` of the not-found branch leaves it open.
SessionExitAtEnd(n, exit) == IF exit = "not found" THEN n ELSE n - 1

\* The with statement leaves the block through Session.__exit__, which closes
\* the session, whichever way the block is left.
SessionExit(n, exit) == n - 1

\* What the caller holds after a call: the call, the table as the call found
\* it, where the store failed during the call, how the call left its body, the
\* number of sessions it opened, and the outcome.
Returned(op, args, fault, exit, ret) ==
    [op |-> op, args |-> args, before |-> store, fault |-> fault,
     exit |-> exit, opened |-> IF op = "init" THEN 0 ELSE 1,
     raised |-> FALSE, ret |-> ret]
Raised(op, args) ==
    [op |-> op, args |-> args, before |-> store, fault |-> "none",
     exit |-> "raise", opened |-> 0,
     raised |-> TRUE, ret |-> None]

\* No call is in progress and no outcome is held: the caller is between calls.
NoCall ==
    [op |-> "", args |-> <<>>, before |-> {}, fault |-> "none",
     exit |-> "", opened |-> 0,
     raised |-> FALSE, ret |-> None]

Idle == last.op = ""

\* A session that reaches the store opens the file.
Opened == /\ fileExists' = CanOpen
          /\ UNCHANGED <<dirExists, tableExists>>

\* The callers of the interleaved specification; in Spec they stay idle.
Callers == {"a", "b"}
NotCalling == [pc |-> "idle"]

Init ==
    /\ dirExists \in BOOLEAN
    /\ fileExists = FALSE
    /\ tableExists = FALSE
    /\ store = {}
    /\ last = NoCall
    /\ lastCreated = None
    /\ sessions = 0
    /\ calls = [c \in Callers |-> NotCalling]

\* init with SQLModel.metadata.drop_all before create_all: the table is made
\* anew on every call.
initRecreating ==
    /\ Idle
    /\ dirExists' = TRUE
    /\ fileExists' = TRUE
    /\ tableExists' = TRUE
    /\ store' = {}
    /\ last' = Returned("init", <<>>, "none", "return", None)
    /\ UNCHANGED <<lastCreated, sessions, calls>>

init ==
    /\ Idle
    /\ dirExists' = TRUE
    /\ fileExists' = TRUE
    /\ tableExists' = TRUE
    /\ last' = Returned("init", <<>>, "none", "return", None)
    /\ UNCHANGED <<store, lastCreated, sessions, calls>>

add_new_fd(fd, fault) ==
    LET r == IF CanExecute THEN AddNewFd(store, fd, fault)
             ELSE [store |-> store, ret |-> None]
        exit == IF r.ret = None THEN "except" ELSE "return"
    IN  /\ Idle
        /\ \A row \in r.store : row.id \in Ids
        /\ store' = r.store
        /\ last' = Returned("add_new_fd", [fd |-> fd], fault, exit, r.ret)
        /\ sessions' = SessionExit(SessionEnter(sessions), exit)
        /\ Opened
        /\ UNCHANGED <<lastCreated, calls>>

\* select_fd that reads with DELETE ... RETURNING: the rows it hands out leave
\* the table.
select_fdConsuming(condition, count, fault) ==
    LET ret == IF CanExecute THEN SelectFd(store, condition, count, fault) ELSE None
    IN  /\ Idle
        /\ ~ Rejects(condition, count)
        /\ last' = Returned("select_fd", [condition |-> condition, count |-> count],
                            fault, IF ret = None THEN "except" ELSE "return", ret)
        /\ store' = IF ret = None THEN store
                    ELSE {r \in store : \A i \in 1..Len(Val(ret)) : Val(ret)[i].id # Some(r.id)}
        /\ fileExists' = CanOpen
        /\ UNCHANGED <<dirExists, tableExists, lastCreated, sessions, calls>>

select_fd(condition, count, fault) ==
    /\ Idle
    /\ IF Rejects(condition, count)
       THEN /\ last' = Raised("select_fd", [condition |-> condition, count |-> count])
            /\ UNCHANGED <<fileExists, sessions>>
       ELSE LET ret == IF CanExecute THEN SelectFd(store, condition, count, fault)
                       ELSE None
                exit == IF ret = None THEN "except" ELSE "return"
            IN  /\ last' = Returned("select_fd",
                                    [condition |-> condition, count |-> count],
                                    fault, exit, ret)
                /\ sessions' = SessionExit(SessionEnter(sessions), exit)
                /\ fileExists' = CanOpen
    /\ UNCHANGED <<dirExists, tableExists, store, lastCreated, calls>>

\* How update_fd and delete_fd leave the with block: by the return of the
\* not-found branch, by the except clause, or by the return at the end.
ExitOf(tbl, fd_id, fault, ret) ==
    IF CanExecute /\ fault = "none" /\ ~ \E r \in tbl : r.id = fd_id THEN "not found"
    ELSE IF ret THEN "return" ELSE "except"

update_fd(fd_id, updates, fault) ==
    LET r == IF CanExecute THEN UpdateFd(store, fd_id, updates, fault)
             ELSE [store |-> store, ret |-> FALSE]
        exit == ExitOf(store, fd_id, fault, r.ret)
    IN  /\ Idle
        /\ store' = r.store
        /\ last' = Returned("update_fd", [fd_id |-> fd_id, updates |-> updates],
                            fault, exit, r.ret)
        /\ sessions' = SessionExit(SessionEnter(sessions), exit)
        /\ Opened
        /\ UNCHANGED <<lastCreated, calls>>

delete_fd(fd_id, fault) ==
    LET r == IF CanExecute THEN DeleteFd(store, fd_id, fault)
             ELSE [store |-> store, ret |-> FALSE]
        exit == ExitOf(store, fd_id, fault, r.ret)
    IN  /\ Idle
        /\ store' = r.store
        /\ last' = Returned("delete_fd", [fd_id |-> fd_id], fault, exit, r.ret)
        /\ sessions' = SessionExit(SessionEnter(sessions), exit)
        /\ Opened
        /\ UNCHANGED <<lastCreated, calls>>

get_all_fds(fault) ==
    LET exit == IF CanExecute /\ fault = "none" THEN "return" ELSE "except"
    IN  /\ Idle
        /\ last' = Returned("get_all_fds", <<>>, fault, exit,
                            IF CanExecute THEN GetAllFds(store, fault) ELSE <<>>)
        /\ sessions' = SessionExit(SessionEnter(sessions), exit)
        /\ Opened
        /\ UNCHANGED <<store, lastCreated, calls>>

\* The caller has looked at the outcome and goes on to its next call;
\* lastCreated follows the records add_new_fd has handed to the caller.
Return ==
    /\ ~Idle
    /\ last' = NoCall
    /\ lastCreated' = IF last.op = "add_new_fd" /\ last.ret # None
                      THEN Val(last.ret).id
                      ELSE lastCreated
    /\ UNCHANGED <<dirExists, fileExists, tableExists, store, sessions, calls>>

Next ==
    \/ init
    \/ \E fd \in FixedDeposits, fault \in AddFaults : add_new_fd(fd, fault)
    \/ \E condition \in Opt(Dicts), count \in Opt(Counts), fault \in Faults :
          select_fd(condition, count, fault)
    \/ \E fd_id \in Ids, fault \in Faults : delete_fd(fd_id, fault)
    \/ \E fd_id \in Ids, updates \in Dicts, fault \in Faults :
          update_fd(fd_id, updates, fault)
    \/ \E fault \in Faults : get_all_fds(fault)
    \/ Return

Spec == Init /\ [][Next]_vars

----------------------------------------------------------------------------
\* Two callers, each in one update_fd or delete_fd, their steps interleaved.
\* A step is one statement that reaches the store: session.get is a SELECT
\* outside any transaction, session.commit() is the write transaction of the
\* flush, which SQLite runs alone.

\* The columns setattr has changed on the loaded object: the UPDATE of the
\* flush sets these and no other.
Changed(fd, d) ==
    {col \in Fields : Updated(fd, d)[col] # fd[col]}

\* UPDATE fixeddeposit SET <changed columns> WHERE id = <loaded id>, on the row
\* the table holds now.
Written(cur, fd, d) ==
    [col \in Fields |-> IF col \in Changed(fd, d) THEN Updated(fd, d)[col] ELSE cur[col]]

\* The setattr loop and session.commit() of update_fd on the object `fd`
\* loaded earlier.  No changed column: nothing is written.  An UPDATE that
\* matches no row raises StaleDataError, which the except clause turns into
\* False.
CommitUpdate(tbl, fd, updates, fault) ==
    IF fault # "none" \/ UnknownField \in Keys(updates)
    THEN [store |-> tbl, lost |-> FALSE, ret |-> FALSE]
    ELSE IF Changed(fd, updates) = {}
    THEN [store |-> tbl, lost |-> FALSE, ret |-> TRUE]
    ELSE IF ~ \E r \in tbl : r.id = fd.id
    THEN [store |-> tbl, lost |-> TRUE, ret |-> FALSE]
    ELSE LET cur == CHOOSE r \in tbl : r.id = fd.id
             new == Written(cur, fd, updates)
         IN  IF new.id # cur.id /\ PrimaryKeyViolation(tbl \ {cur}, new.id)
             THEN [store |-> tbl, lost |-> FALSE, ret |-> FALSE]
             ELSE [store |-> (tbl \ {cur}) \cup {new}, lost |-> FALSE, ret |-> TRUE]

\* session.delete(fd) and session.commit() of delete_fd on the object `fd`
\* loaded earlier.  A DELETE that matches no row gives a warning, not an
\* exception: the commit goes through and True is returned.
CommitDelete(tbl, fd, fault) ==
    IF fault # "none" THEN [store |-> tbl, lost |-> FALSE, ret |-> FALSE]
    ELSE [store |-> {r \in tbl : r.id # fd.id},
          lost |-> ~ \E r \in tbl : r.id = fd.id,
          ret |-> TRUE]

\* The tables the sequential calls can leave behind.
Rows == {RowOf(fd, id) : fd \in FixedDeposits, id \in Ids}
Tables == {tbl \in SUBSET Rows : \A r1, r2 \in tbl : r1.id = r2.id => r1 = r2}

InitConc ==
    /\ dirExists = TRUE
    /\ fileExists = TRUE
    /\ tableExists = TRUE
    /\ store \in Tables
    /\ last = NoCall
    /\ lastCreated = None
    /\ sessions = 0
    /\ calls = [c \in Callers |-> NotCalling]

\* The caller enters update_fd or delete_fd: the with statement opens its
\* session.
Begin(c, op, fd_id) ==
    /\ calls[c].pc = "idle"
    /\ calls' = [calls EXCEPT ![c] = [pc |-> "opened", op |-> op, fd_id |-> fd_id,
                                     fd |-> None, lost |-> FALSE, ret |-> FALSE]]
    /\ sessions' = SessionEnter(sessions)
    /\ UNCHANGED <<dirExists, fileExists, tableExists, store, last, lastCreated>>

\* fd = session.get(FixedDeposit, fd_id); if not fd: return False
Get(c) ==
    /\ calls[c].pc = "opened"
    /\ IF \E r \in store : r.id = calls[c].fd_id
       THEN /\ calls' = [calls EXCEPT ![c].pc = "loaded",
                                      ![c].fd = Some(CHOOSE r \in store :
                                                        r.id = calls[c].fd_id)]
            /\ UNCHANGED sessions
       ELSE /\ calls' = [calls EXCEPT ![c].pc = "done", ![c].ret = FALSE]
            /\ sessions' = SessionExit(sessions, "not found")
    /\ UNCHANGED <<dirExists, fileExists, tableExists, store, last, lastCreated>>

\* The rest of the try block: the mutation, session.commit(), the return.
\* update_fd reads its `updates` argument here for the first time.
Commit(c, updates, fault) ==
    /\ calls[c].pc = "loaded"
    /\ LET fd == Val(calls[c].fd)
           r == IF calls[c].op = "update_fd"
                THEN CommitUpdate(store, fd, updates, fault)
                ELSE CommitDelete(store, fd, fault)
       IN  /\ \A row \in r.store : row.id \in Ids
           /\ store' = r.store
           /\ calls' = [calls EXCEPT ![c].pc = "done", ![c].fd = None,
                                     ![c].lost = r.lost, ![c].ret = r.ret]
           /\ sessions' = SessionExit(sessions, IF r.ret THEN "return" ELSE "except")
    /\ UNCHANGED <<dirExists, fileExists, tableExists, last, lastCreated>>

NextConc ==
    \/ \E c \in Callers, op \in {"update_fd", "delete_fd"}, fd_id \in Ids :
          Begin(c, op, fd_id)
    \/ \E c \in Callers : Get(c)
    \/ \E c \in Callers, updates \in Dicts, fault \in Faults : Commit(c, updates, fault)

SpecConc == InitConc /\ [][NextConc]_vars

----------------------------------------------------------------------------
\* Properties.  A state in which a call has just returned shows the call in
\* `last`, the table it found in last.before and the table it left in store.

Range(seq) == {seq[i] : i \in 1..Len(seq)}
Loaded(tbl) == {Load(r) : r \in tbl}
HasId(tbl, id) == \E r \in tbl : r.id = id
TheRow(tbl, id) == CHOOSE r \in tbl : r.id = id

\* The call found a store it could use and the store did not fail under it.
Served == fileExists /\ tableExists /\ last.fault = "none"

Called(op) == last.op = op
Created == Called("add_new_fd") /\ last.ret # None

\* C1: no two rows of the table have the same id, in every reachable state.
IdsUnique == \A r1, r2 \in store : r1.id = r2.id => r1 = r2

\* C1 witness: the table holds two rows and add_new_fd was refused a draft
\* that carries the id of one of them.
IdsUniqueWitness ==
    /\ Cardinality(store) >= 2
    /\ Called("add_new_fd") /\ Served
    /\ last.args.fd.id # None
    /\ HasId(last.before, Val(last.args.fd.id))
    /\ last.ret = None

\* C2 as claimed: a successful add_new_fd never returns the id that the
\* successful add_new_fd before it returned, whatever was called in between.
CreatedIdsDistinct ==
    (Created /\ lastCreated # None) => Val(last.ret).id # lastCreated

\* C2 amended: a successful add_new_fd returns an id that no row of the table
\* had when it was called.
CreatedIdIsFresh ==
    Created => ~ HasId(last.before, Val(Val(last.ret).id))

\* C2 witness: a second add_new_fd succeeded on a table that held rows.
CreatedIdIsFreshWitness ==
    /\ Created
    /\ lastCreated # None
    /\ last.before # {}

\* C3 as claimed: update_fd never changes the id of a row: the ids of the table
\* are the same before and after every update_fd.
IdNeverChanges ==
    Called("update_fd") => {r.id : r \in store} = {r.id : r \in last.before}

\* C4 as claimed: add_new_fd ignores the id of the draft: served by the store, it
\* does what it does for the same draft without an id, storing the record under
\* the id the store assigns and returning it.
CreateIgnoresDraftId ==
    (Called("add_new_fd") /\ Served) =>
        LET r == AddNewFd(last.before, [last.args.fd EXCEPT !.id = None], "none")
        IN  store = r.store /\ last.ret = r.ret

\* C5 as claimed: after a successful add_new_fd, select_fd({"id": returned id})
\* returns exactly one record, equal to the draft on every field but id.
RoundTrip ==
    Created =>
        LET byId == [id |-> Val(last.ret).id, bank_name |-> Absent,
                     interest_rate |-> Absent, nickname |-> Absent]
            got == SelectFd(store, Some(byId), None, "none")
        IN  /\ got # None
            /\ Len(Val(got)) = 1
            /\ Val(got)[1].bank_name = last.args.fd.bank_name
            /\ Val(got)[1].interest_rate = last.args.fd.interest_rate

\* The record has the value of the dict on every field the dict names.
Satisfies(fd, d) ==
    /\ d.id # Absent => fd.id = d.id
    /\ d.bank_name # Absent => fd.bank_name = Val(d.bank_name)
    /\ d.interest_rate # Absent => fd.interest_rate = Val(d.interest_rate)

\* C6 as claimed: select_fd with a filter over known fields and no limit returns
\* exactly the stored records that have the given value on every listed field.
FilterExact ==
    (/\ Called("select_fd") /\ Served
     /\ last.args.condition # None /\ last.args.count = None
     /\ UnknownField \notin Keys(Val(last.args.condition)))
    => /\ last.ret # None
       /\ Range(Val(last.ret)) =
             {fd \in Loaded(last.before) : Satisfies(fd, Val(last.args.condition))}
       /\ Len(Val(last.ret)) = Cardinality(Range(Val(last.ret)))

\* C7 as claimed: select_fd called with both a filter (a mapping that names a
\* field) and a limit raises, whatever the filter, the limit and the table.
BothRejected ==
    (/\ Called("select_fd")
     /\ last.args.condition # None /\ Keys(Val(last.args.condition)) # {}
     /\ last.args.count # None)
    => last.raised /\ last.ret = None

\* C8 as claimed: select_fd with a limit and no filter returns at most `count`
\* records, each a record of the table.
LimitBounds ==
    (/\ Called("select_fd")
     /\ last.args.condition = None /\ last.args.count # None
     /\ ~ last.raised /\ last.ret # None)
    => /\ Len(Val(last.ret)) <= Val(last.args.count)
       /\ Range(Val(last.ret)) \subseteq Loaded(last.before)

\* The record that update_fd(id, d) is to leave in place of fd.
Patched(fd, d) ==
    [id |-> IF d.id # Absent THEN d.id ELSE fd.id,
     bank_name |-> IF d.bank_name # Absent THEN Val(d.bank_name) ELSE fd.bank_name,
     interest_rate |-> IF d.interest_rate # Absent THEN Val(d.interest_rate)
                       ELSE fd.interest_rate]

\* C9 as claimed: an update_fd that returns True has set exactly the fields of
\* the mapping to the given values on the record, and has left its other fields
\* and every other record as they were.
UpdatePartial ==
    (Called("update_fd") /\ last.ret = TRUE) =>
        /\ HasId(last.before, last.args.fd_id)
        /\ LET fd == Load(TheRow(last.before, last.args.fd_id))
           IN  Loaded(store) =
                  (Loaded(last.before) \ {fd}) \cup {Patched(fd, last.args.updates)}

\* C10: update_fd and delete_fd with an id that no row has return False and
\* leave the table as it was.
NotFoundLeavesStore ==
    ((Called("update_fd") \/ Called("delete_fd"))
     /\ ~ HasId(last.before, last.args.fd_id))
    => last.ret = FALSE /\ store = last.before

\* C10 witness: update_fd, served by the store, was given a non-empty mapping
\* and an id that none of the rows of a non-empty table has.
NotFoundLeavesStoreWitness ==
    /\ Called("update_fd") /\ Served
    /\ Keys(last.args.updates) # {}
    /\ last.before # {}
    /\ ~ HasId(last.before, last.args.fd_id)

\* The filter {"id": id}.
ById(id) ==
    [id |-> Some(id), bank_name |-> Absent, interest_rate |-> Absent, nickname |-> Absent]

\* C11: delete_fd of an id that a row has returns True; select_fd by that id
\* then returns an empty list, and a second delete_fd of the id returns False
\* and leaves the table as it is.
DeleteIdempotent ==
    (Called("delete_fd") /\ Served /\ HasId(last.before, last.args.fd_id)) =>
        /\ last.ret = TRUE
        /\ SelectFd(store, Some(ById(last.args.fd_id)), None, "none") = Some(<<>>)
        /\ DeleteFd(store, last.args.fd_id, "none") = [store |-> store, ret |-> FALSE]

\* C11 witness: delete_fd removed one of the two rows of the table.
DeleteIdempotentWitness ==
    /\ Called("delete_fd") /\ Served
    /\ Cardinality(last.before) = 2
    /\ HasId(last.before, last.args.fd_id)
    /\ Cardinality(store) = 1

\* C12 as claimed: when add_new_fd returns None the table holds the rows it
\* held before the call.
CreateFailureLeavesStore ==
    (Called("add_new_fd") /\ last.ret = None) => store = last.before

\* C13 as claimed: update_fd of an existing id with a mapping that names an
\* unknown field has an outcome other than the outcome of update_fd for an id
\* that no row has, and other than its outcome when the store fails.
UnknownFieldDistinct ==
    (/\ Called("update_fd") /\ Served
     /\ HasId(last.before, last.args.fd_id)
     /\ UnknownField \in Keys(last.args.updates))
    => \/ last.raised
       \/ /\ last.ret # UpdateFd({}, last.args.fd_id, last.args.updates, "none").ret
          /\ last.ret # UpdateFd(last.before, last.args.fd_id, last.args.updates, "io").ret

\* The store was not there for the call, or failed under it.
StoreFailed == last.fault # "none" \/ ~ (fileExists /\ tableExists)

\* C14: a failure of the store never raises: add_new_fd and select_fd return
\* None (select_fd never an empty list), update_fd and delete_fd return False,
\* get_all_fds returns the empty list.
FailureAbsorbed ==
    /\ (Called("add_new_fd") /\ StoreFailed) => ~ last.raised /\ last.ret = None
    /\ (/\ Called("select_fd") /\ StoreFailed
        /\ ~ Rejects(last.args.condition, last.args.count))
       => ~ last.raised /\ last.ret = None
    /\ ((Called("update_fd") \/ Called("delete_fd")) /\ StoreFailed)
       => ~ last.raised /\ last.ret = FALSE
    /\ (Called("get_all_fds") /\ StoreFailed) => ~ last.raised /\ last.ret = <<>>

\* C14 witness: the store failed under a filtered select_fd on a table with rows.
FailureAbsorbedWitness ==
    /\ Called("select_fd")
    /\ last.fault = "io"
    /\ TruthyDict(last.args.condition)
    /\ last.before # {}

\* C15: init leaves the rows of the table as they are and leaves the file and
\* the table in place; wherever the table exists the file exists.
InitPreserves ==
    /\ Called("init") => store = last.before /\ fileExists /\ tableExists
    /\ tableExists => fileExists /\ dirExists

\* C15 witness: init was called again, on a table that holds rows.
InitPreservesWitness == Called("init") /\ last.before # {}

\* C16 as claimed: the Decimal that add_new_fd or update_fd wrote to
\* interest_rate is the Decimal a read of the record returns.
DecimalFidelity ==
    /\ Created =>
          Load(TheRow(store, Val(Val(last.ret).id))).interest_rate
             = last.args.fd.interest_rate
    /\ (/\ Called("update_fd") /\ last.ret = TRUE
        /\ last.args.updates.interest_rate # Absent)
       => LET id == IF last.args.updates.id # Absent THEN Val(last.args.updates.id)
                    ELSE last.args.fd_id
          IN  Load(TheRow(store, id)).interest_rate
                 = Val(last.args.updates.interest_rate)

\* C17: an update_fd that returns False leaves every row as it was.
FailedUpdateLeavesStore ==
    (Called("update_fd") /\ last.ret = FALSE) => store = last.before

\* C17 witness: update_fd failed on an unknown field name after the mapping
\* gave the row it found another bank_name.
FailedUpdateLeavesStoreWitness ==
    /\ Called("update_fd") /\ Served
    /\ HasId(last.before, last.args.fd_id)
    /\ UnknownField \in Keys(last.args.updates)
    /\ last.args.updates.bank_name # Absent
    /\ Val(last.args.updates.bank_name) # TheRow(last.before, last.args.fd_id).bank_name
    /\ last.ret = FALSE

\* C20: select_fd and get_all_fds leave the rows of the table as they are.
ReadsArePure ==
    (Called("select_fd") \/ Called("get_all_fds")) => store = last.before

\* C20 witness: select_fd rejected a filter with a limit on a table with rows.
ReadsArePureWitness ==
    /\ Called("select_fd")
    /\ last.raised
    /\ last.before # {}

\* C18: every call opens at most one session and has closed it when control
\* is back with the caller, whichever way the call left its body (return,
\* not found, except clause, the ValueError of select_fd): no session is
\* open in any state between two calls.
SessionsReleased == sessions = 0 /\ last.opened <= 1

\* C18 witness: delete_fd of an id the table does not hold has left its with
\* block through the early `return False`, having opened its session.
SessionsReleasedWitness ==
    /\ Called("delete_fd") /\ last.exit = "not found" /\ last.opened = 1
    /\ store # {}

\* C19: when update_fd and delete_fd calls on one id interleave, the call
\* whose write loses the race at the store returns False; in particular two
\* concurrent deletes of one record never both return True.
ConcurrentDeletesNotBothTrue ==
    \A c1, c2 \in Callers :
        (/\ c1 # c2
         /\ calls[c1].pc = "done" /\ calls[c1].op = "delete_fd"
         /\ calls[c2].pc = "done" /\ calls[c2].op = "delete_fd"
         /\ calls[c1].fd_id = calls[c2].fd_id)
        => ~ (calls[c1].ret /\ calls[c2].ret)

====
